---- MODULE Spec2Model ----
(***************************************************************************)
(* A model of BaseAPI (mobile_notifications/android/baseapi.py): the       *)
(* credential holder, the FCM payload builder, the registration-id chunk   *)
(* generator and the transport with its response parser.                   *)
(*                                                                         *)
(* Three specifications share the variables:                               *)
(*   SpecChunks   registration_id_chunks, one yield per step               *)
(*   SpecPayload  parse_payload over a bounded set of keyword arguments    *)
(*   SpecSend     __init__ followed by send_request, one statement a step  *)
(***************************************************************************)
EXTENDS Integers, Sequences, FiniteSets, TLC

VARIABLES
    pc,                 \* position of the running call
    registration_ids,   \* registration_id_chunks: the list it was given
    i,                  \* registration_id_chunks: the xrange index
    chunks,             \* registration_id_chunks: the chunks yielded so far
    kwargs,             \* parse_payload: the keyword arguments of the call
    outcome,            \* the call's result: what it returned or raised
    api,                \* the BaseAPI object: _FCM_API_KEY, FCM_REQ_PROXIES
    payloads,           \* send_request: the payloads sequence it was given
    payload,            \* send_request: the loop variable (index in payloads)
    response,           \* send_request: the local variable response
    posts               \* the requests.post calls made so far, in order

vars == <<pc, registration_ids, i, chunks, kwargs, outcome, api, payloads,
          payload, response, posts>>

(***************************************************************************)
(* Python values.  A value carries its type, so that truthiness and        *)
(* isinstance are computed the way Python computes them.  Scalars keep     *)
(* their literal in s, lists of strings their items in l, dicts their      *)
(* items in d.                                                             *)
(***************************************************************************)
PyNone == [t |-> "NoneType", s |-> "", l |-> <<>>, d |-> <<>>]
PyStr(x) == [t |-> "str", s |-> x, l |-> <<>>, d |-> <<>>]
PyInt(x) == [t |-> "int", s |-> x, l |-> <<>>, d |-> <<>>]
PyFloat(x) == [t |-> "float", s |-> x, l |-> <<>>, d |-> <<>>]
PyBool(x) == [t |-> "bool", s |-> x, l |-> <<>>, d |-> <<>>]
PyList(q) == [t |-> "list", s |-> "", l |-> q, d |-> <<>>]
PyDict(f) == [t |-> "dict", s |-> "", l |-> <<>>, d |-> f]

PyTrue == PyBool("True")
PyFalse == PyBool("False")
EmptyDict == <<>>

\* bool(v)
Truthy(v) ==
    CASE v.t = "NoneType" -> FALSE
      [] v.t = "str" -> v.s # ""
      [] v.t = "int" -> v.s # "0"
      [] v.t = "float" -> v.s # "0.0"
      [] v.t = "bool" -> v.s = "True"
      [] v.t = "list" -> v.l # <<>>
      [] v.t = "dict" -> DOMAIN v.d # {}

\* isinstance(v, int): bool is a subclass of int
IsInstanceInt(v) == v.t \in {"int", "bool"}

\* isinstance(v, dict)
IsInstanceDict(v) == v.t = "dict"

\* d[k] = v on a dict's items
Put(d, k, v) == [x \in (DOMAIN d) \cup {k} |-> IF x = k THEN v ELSE d[x]]

\* d.update(e)
Update(d, e) == [x \in (DOMAIN d) \cup (DOMAIN e) |-> IF x \in DOMAIN e THEN e[x] ELSE d[x]]

\* d.get(k, default)
DictGet(d, k, default) == IF k \in DOMAIN d THEN d[k] ELSE default

(***************************************************************************)
(* registration_id_chunks                                                  *)
(***************************************************************************)
FCM_MAX_RECIPIENTS == 1000

MaxRecipients == 2001

\* seq[lo:hi] with 0 <= lo <= hi, Python's 0-based half-open slice
PySliceShort(seq, lo, hi) == SubSeq(seq, lo + 1, (IF hi - 1 < Len(seq) THEN hi - 1 ELSE Len(seq)))
PySlice(seq, lo, hi) == SubSeq(seq, lo + 1, (IF hi < Len(seq) THEN hi ELSE Len(seq)))

\* the recipient lists of the model: n distinct ids, n = 0..MaxRecipients
RecipientList(n) == [x \in 1..n |-> x]

InitChunks ==
    /\ pc = "chunks"
    /\ registration_ids \in {RecipientList(n) : n \in 0..MaxRecipients}
    /\ i = 0
    /\ chunks = <<>>
    /\ kwargs = PyNone
    /\ outcome = PyNone
    /\ api = PyNone
    /\ payloads = <<>>
    /\ payload = 0
    /\ response = PyNone
    /\ posts = <<>>

\* one turn of the for loop: the next xrange value exists, its slice is yielded
Yield ==
    /\ pc = "chunks"
    /\ i < Len(registration_ids)
    /\ chunks' = Append(chunks, PySlice(registration_ids, i, i + FCM_MAX_RECIPIENTS))
    /\ i' = i + FCM_MAX_RECIPIENTS
    /\ UNCHANGED <<pc, registration_ids, kwargs, outcome, api, payloads, payload, response, posts>>

\* the xrange is exhausted: the generator ends
StopIteration ==
    /\ pc = "chunks"
    /\ i >= Len(registration_ids)
    /\ pc' = "exhausted"
    /\ UNCHANGED <<registration_ids, i, chunks, kwargs, outcome, api, payloads, payload, response, posts>>

NextChunks == Yield \/ StopIteration

SpecChunks == InitChunks /\ [][NextChunks]_vars

\* the concatenation of the chunks, in order
RECURSIVE Concat(_)
Concat(cs) == IF cs = <<>> THEN <<>> ELSE Concat(SubSeq(cs, 1, Len(cs) - 1)) \o cs[Len(cs)]

\* ceil(n / m)
CeilDiv(n, m) == (n + m - 1) \div m

\* C2 as stated: one chunk for every list of at most 1000 ids, ceil(n/1000) chunks
\* above that, each chunk at most 1000 ids, the chunks concatenated being the list.
C2_AsStated ==
    pc = "exhausted" =>
        LET n == Len(registration_ids) IN
        /\ (n <= FCM_MAX_RECIPIENTS => Len(chunks) = 1)
        /\ (n > FCM_MAX_RECIPIENTS => Len(chunks) = CeilDiv(n, FCM_MAX_RECIPIENTS))
        /\ \A c \in 1..Len(chunks) : Len(chunks[c]) <= FCM_MAX_RECIPIENTS
        /\ Concat(chunks) = registration_ids

\* C2 amended: a list of n ids yields ceil(n/1000) chunks, which is one chunk for
\* 1 <= n <= 1000 and no chunk at all for the empty list; each chunk holds between
\* 1 and 1000 ids, and the chunks concatenated in order are the list.
C2_Chunks ==
    pc = "exhausted" =>
        LET n == Len(registration_ids) IN
        /\ Len(chunks) = CeilDiv(n, FCM_MAX_RECIPIENTS)
        /\ (n = 0 => Len(chunks) = 0)
        /\ (1 <= n /\ n <= FCM_MAX_RECIPIENTS => Len(chunks) = 1)
        /\ \A c \in 1..Len(chunks) :
              /\ Len(chunks[c]) >= 1
              /\ Len(chunks[c]) <= FCM_MAX_RECIPIENTS
        /\ Concat(chunks) = registration_ids

\* C2: a list of more than 2000 ids has been split into three chunks
C2_Witness ==
    /\ pc = "exhausted"
    /\ Len(registration_ids) > 2 * FCM_MAX_RECIPIENTS
    /\ Len(chunks) = 3
    /\ Len(chunks[3]) < FCM_MAX_RECIPIENTS

(***************************************************************************)
(* json_dumps and parse_payload                                            *)
(***************************************************************************)
FCM_LOW_PRIORITY == "normal"
FCM_HIGH_PRIORITY == "high"

\* every dict key of the model, in the order sort_keys puts them
KeyOrder ==
    << "badge", "body", "body_loc_args", "body_loc_key", "click_action",
       "collapse_key", "color", "condition", "content_available", "data",
       "delay_while_idle", "dry_run", "icon", "k", "mutable_content",
       "notification", "priority", "registration_ids",
       "restricted_package_name", "sound", "tag", "time_to_live", "title",
       "title_loc_args", "title_loc_key", "to" >>

SortedKeys(d) == SelectSeq(KeyOrder, LAMBDA k : k \in DOMAIN d)

\* json.dumps(v, sort_keys=True): a dict becomes the sequence of its
\* key/value pairs in key order, nested dicts included; other values are
\* written as they are
RECURSIVE Dumps(_)
Dumps(v) ==
    IF v.t = "dict"
    THEN LET ks == SortedKeys(v.d)
         IN  [v EXCEPT !.d = [n \in 1..Len(ks) |-> [key |-> ks[n], value |-> Dumps(v.d[ks[n]])]]]
    ELSE v

json_dumps(data) == Dumps(PyDict(data)).d

\* reading the serialized object back: is key k there, and with what value
JsonHas(js, k) == \E n \in 1..Len(js) : js[n].key = k
JsonGet(js, k) == js[CHOOSE n \in 1..Len(js) : js[n].key = k].value

NoOutcome == [kind |-> "none", error |-> "", message |-> "", value |-> <<>>]
Return(v) == [kind |-> "return", error |-> "", message |-> "", value |-> v]
Raise(e, m) == [kind |-> "raise", error |-> e, message |-> m, value |-> <<>>]

\* lines 119-123: the registration ids
AddressRegistrationIds(p, kw) ==
    IF Truthy(kw.registration_ids)
    THEN IF Len(kw.registration_ids.l) > 1
         THEN Put(p, "registration_ids", kw.registration_ids)
         ELSE Put(p, "to", PyStr(kw.registration_ids.l[1]))
    ELSE p

\* lines 124-131: the condition, else the topic
AddressTopicAlways(p, kw) ==
    LET q == IF Truthy(kw.condition) THEN Put(p, "condition", kw.condition) ELSE p
    IN  IF Truthy(kw.topic_name)
        THEN Put(q, "to", PyStr("/topics/" \o kw.topic_name.s))
        ELSE q
AddressConditionTopic(p, kw) ==
    IF Truthy(kw.condition)
    THEN Put(p, "condition", kw.condition)
    ELSE IF Truthy(kw.topic_name)
         THEN Put(p, "to", PyStr("/topics/" \o kw.topic_name.s))
         ELSE p

\* lines 132-135
Priority(p, kw) ==
    IF Truthy(kw.low_priority)
    THEN Put(p, "priority", PyStr(FCM_LOW_PRIORITY))
    ELSE Put(p, "priority", PyStr(FCM_HIGH_PRIORITY))

\* if kw[name]: p[key] = kw[name]
PutIfTruthy(p, key, v) == IF Truthy(v) THEN Put(p, key, v) ELSE p

\* lines 137-140
DelayCollapse(p, kw) ==
    PutIfTruthy(PutIfTruthy(p, "delay_while_idle", kw.delay_while_idle),
                "collapse_key", kw.collapse_key)

\* lines 141-145
TimeToLiveRaises(kw) == Truthy(kw.time_to_live) /\ ~IsInstanceInt(kw.time_to_live)
TimeToLive(p, kw) == PutIfTruthy(p, "time_to_live", kw.time_to_live)

\* lines 146-149
PackageDryRun(p, kw) ==
    PutIfTruthy(PutIfTruthy(p, "restricted_package_name", kw.restricted_package_name),
                "dry_run", kw.dry_run)

\* lines 151-155
DataMessageRaises(kw) == Truthy(kw.data_message) /\ ~IsInstanceDict(kw.data_message)
DataMessage(p, kw) == PutIfTruthy(p, "data", kw.data_message)

\* lines 156-185: the notification object, or content_available
Notification(p, kw) ==
    IF Truthy(kw.message_body)
    THEN LET n0 == [x \in {"body", "title", "icon"} |->
                       CASE x = "body" -> kw.message_body
                         [] x = "title" -> kw.message_title
                         [] x = "icon" -> kw.message_icon]
             n1 == PutIfTruthy(n0, "click_action", kw.click_action)
             n2 == PutIfTruthy(n1, "badge", kw.badge)
             n3 == PutIfTruthy(n2, "color", kw.color)
             n4 == PutIfTruthy(n3, "tag", kw.tag)
             n5 == PutIfTruthy(n4, "body_loc_key", kw.body_loc_key)
             n6 == PutIfTruthy(n5, "body_loc_args", kw.body_loc_args)
             n7 == PutIfTruthy(n6, "title_loc_key", kw.title_loc_key)
             n8 == PutIfTruthy(n7, "title_loc_args", kw.title_loc_args)
             n9 == PutIfTruthy(n8, "sound", kw.sound)
         IN  Put(p, "notification", PyDict(n9))
    ELSE Put(p, "content_available", PyTrue)

\* lines 187-188: fcm_payload.update(extra_kwargs)
MergeExtrasKeepEarlier(p, kw) == Update(kw.extra_kwargs, p)
MergeExtras(p, kw) ==
    IF DOMAIN kw.extra_kwargs # {} THEN Update(p, kw.extra_kwargs) ELSE p

\* the dict fcm_payload as it stands before the extras are merged, for the
\* calls that get that far
BeforeExtras(kw) ==
    LET p1 == AddressRegistrationIds(EmptyDict, kw)
        p2 == AddressConditionTopic(p1, kw)
        p3 == Priority(p2, kw)
        p4 == DelayCollapse(p3, kw)
        p5 == TimeToLive(p4, kw)
        p6 == PackageDryRun(p5, kw)
        p7 == DataMessage(p6, kw)
    IN  Notification(p7, kw)

\* parse_payload(**kw): what the call returns or raises
ParsePayload(kw) ==
    IF TimeToLiveRaises(kw)
    THEN Raise("InvalidDataError", "Provided time_to_live is not an integer")
    ELSE IF DataMessageRaises(kw)
         THEN Raise("InvalidDataError", "Provided data_message is in the wrong format")
         ELSE Return(json_dumps(MergeExtras(BeforeExtras(kw), kw)))

(***************************************************************************)
(* The calls of parse_payload the model makes                              *)
(***************************************************************************)
MaxRegIds == 2

RegistrationIds == {"r1", "r2"}

RegistrationIdsArgs ==
    {PyNone} \cup {PyList(q) : q \in UNION {[1..n -> RegistrationIds] : n \in 0..MaxRegIds}}

TopicNameArgs == {PyNone, PyStr(""), PyStr("news")}

ConditionArgs == {PyNone, PyStr(""), PyStr("'a' in topics")}

TimeToLiveArgs ==
    {PyNone, PyInt("0"), PyInt("60"), PyTrue, PyStr(""), PyStr("60"), PyFloat("0.0"),
     PyFloat("1.5")}

DataMessageArgs ==
    {PyNone, PyDict(EmptyDict), PyDict([x \in {"k"} |-> PyStr("v")]),
     PyList(<<>>), PyList(<<"x">>), PyStr("")}

\* message_body with sound
BodySoundArgs ==
    {<<PyNone, PyNone>>, <<PyNone, PyStr("ding")>>, <<PyStr(""), PyNone>>,
     <<PyStr("hi"), PyNone>>, <<PyStr("hi"), PyStr("")>>, <<PyStr("hi"), PyStr("ding")>>}

\* **extra_kwargs: names that are no parameter of parse_payload
ExtraKwargsArgs ==
    {EmptyDict,
     [x \in {"to"} |-> PyStr("r9")],
     [x \in {"priority", "mutable_content"} |->
         IF x = "priority" THEN PyStr("normal") ELSE PyTrue],
     [x \in {"data", "content_available", "registration_ids"} |->
         CASE x = "data" -> PyDict([y \in {"k"} |-> PyStr("w")])
           [] x = "content_available" -> PyFalse
           [] x = "registration_ids" -> PyList(<<"r8", "r9">>)],
     [x \in {"notification"} |-> PyDict([y \in {"body"} |-> PyStr("other")])]}

\* the parameters' default values (lines 89-112)
Defaults ==
    [registration_ids |-> PyNone, topic_name |-> PyNone, message_body |-> PyNone,
     message_title |-> PyNone, message_icon |-> PyNone, sound |-> PyNone,
     condition |-> PyNone, collapse_key |-> PyNone, delay_while_idle |-> PyFalse,
     time_to_live |-> PyNone, restricted_package_name |-> PyNone,
     low_priority |-> PyFalse, dry_run |-> PyFalse, data_message |-> PyNone,
     click_action |-> PyNone, badge |-> PyNone, color |-> PyNone, tag |-> PyNone,
     body_loc_key |-> PyNone, body_loc_args |-> PyNone, title_loc_key |-> PyNone,
     title_loc_args |-> PyNone, extra_kwargs |-> EmptyDict]

\* the remaining options, all left at their defaults or all given
AllOptions ==
    [Defaults EXCEPT
        !.message_title = PyStr("title"), !.message_icon = PyStr("icon.png"),
        !.collapse_key = PyStr("ck"), !.delay_while_idle = PyTrue,
        !.restricted_package_name = PyStr("org.app"), !.low_priority = PyTrue,
        !.dry_run = PyTrue, !.click_action = PyStr("OPEN"), !.badge = PyInt("1"),
        !.color = PyStr("#fff"), !.tag = PyStr("tag"),
        !.body_loc_key = PyStr("blk"), !.body_loc_args = PyList(<<"a">>),
        !.title_loc_key = PyStr("tlk"), !.title_loc_args = PyList(<<"b">>)]

OptionsArgs == {Defaults, AllOptions}

InitPayload ==
    /\ pc = "call"
    /\ registration_ids = <<>>
    /\ i = 0
    /\ chunks = <<>>
    /\ kwargs = Defaults
    /\ outcome = NoOutcome
    /\ api = PyNone
    /\ payloads = <<>>
    /\ payload = 0
    /\ response = PyNone
    /\ posts = <<>>

\* one call of parse_payload
parse_payload ==
    /\ pc = "call"
    /\ \E o \in OptionsArgs, r \in RegistrationIdsArgs, t \in TopicNameArgs,
          c \in ConditionArgs, ttl \in TimeToLiveArgs, dm \in DataMessageArgs,
          bs \in BodySoundArgs, x \in ExtraKwargsArgs :
          kwargs' = [o EXCEPT !.registration_ids = r, !.topic_name = t,
                              !.condition = c, !.time_to_live = ttl,
                              !.data_message = dm, !.message_body = bs[1],
                              !.sound = bs[2], !.extra_kwargs = x]
    /\ outcome' = ParsePayload(kwargs')
    /\ pc' = "done"
    /\ UNCHANGED <<registration_ids, i, chunks, api, payloads, payload, response, posts>>

NextPayload == parse_payload

SpecPayload == InitPayload /\ [][NextPayload]_vars

(***************************************************************************)
(* Properties of parse_payload                                             *)
(***************************************************************************)
Built == pc = "done" /\ outcome.kind = "return"

NoExtras == DOMAIN kwargs.extra_kwargs = {}

OneRegistrationId == Truthy(kwargs.registration_ids) /\ Len(kwargs.registration_ids.l) = 1

SeveralRegistrationIds == Truthy(kwargs.registration_ids) /\ Len(kwargs.registration_ids.l) > 1

TopicTarget == PyStr("/topics/" \o kwargs.topic_name.s)

\* the addressing modes present in a serialized payload
ModeCount(js) ==
    (IF JsonHas(js, "registration_ids") THEN 1 ELSE 0)
    + (IF JsonHas(js, "to") THEN 1 ELSE 0)
    + (IF JsonHas(js, "condition") THEN 1 ELSE 0)

\* C1 as stated: without extra keyword arguments every built payload holds
\* exactly one addressing mode.
C1_AsStated == Built /\ NoExtras => ModeCount(outcome.value) = 1

\* C1 amended: without extra keyword arguments the built payload holds a
\* 'registration_ids' list exactly when several ids are given, a 'condition'
\* exactly when a condition is given, and a 'to' exactly when one id is given or
\* a topic is given without a condition; so it holds exactly one addressing
\* mode when ids are given alone or topic/condition are given without ids (and
\* when one id is given with a topic and no condition, 'to' being the topic),
\* none when no addressing input is given, and two when ids are combined with
\* a condition or several ids with a topic.
C1_AddressingModes ==
    Built /\ NoExtras =>
        LET js == outcome.value
            R == Truthy(kwargs.registration_ids)
            C == Truthy(kwargs.condition)
            T == Truthy(kwargs.topic_name)
        IN  /\ JsonHas(js, "registration_ids") <=> SeveralRegistrationIds
            /\ JsonHas(js, "condition") <=> C
            /\ JsonHas(js, "to") <=> (OneRegistrationId \/ (T /\ ~C))
            /\ (R /\ ~C /\ ~T) => ModeCount(js) = 1
            /\ (~R /\ (C \/ T)) => ModeCount(js) = 1
            /\ (OneRegistrationId /\ T /\ ~C) =>
                  ModeCount(js) = 1 /\ JsonGet(js, "to") = TopicTarget
            /\ (~R /\ ~C /\ ~T) => ModeCount(js) = 0
            /\ (R /\ C) => ModeCount(js) = 2
            /\ (SeveralRegistrationIds /\ T /\ ~C) => ModeCount(js) = 2

\* C1: several ids given with a condition, both modes in the payload
C1_Witness ==
    /\ Built /\ NoExtras
    /\ SeveralRegistrationIds
    /\ Truthy(kwargs.condition)
    /\ JsonHas(outcome.value, "registration_ids")
    /\ JsonHas(outcome.value, "condition")

\* C6 as stated: a time_to_live that is given and is no integer raises
\* InvalidDataError, whatever its value; an integer one is carried under
\* 'time_to_live'.
C6_AsStated ==
    pc = "done" =>
        /\ (kwargs.time_to_live # PyNone /\ ~IsInstanceInt(kwargs.time_to_live)) =>
              (outcome.kind = "raise" /\ outcome.error = "InvalidDataError")
        /\ (IsInstanceInt(kwargs.time_to_live) /\ outcome.kind = "return") =>
              /\ JsonHas(outcome.value, "time_to_live")
              /\ JsonGet(outcome.value, "time_to_live") = kwargs.time_to_live

\* C7 as stated: a data_message that is given and is no mapping raises
\* InvalidDataError, whatever its value; a mapping is carried under 'data'
\* (stated here for calls without extra keyword arguments).
C7_AsStated ==
    pc = "done" /\ NoExtras =>
        /\ (kwargs.data_message # PyNone /\ kwargs.data_message.t # "dict") =>
              (outcome.kind = "raise" /\ outcome.error = "InvalidDataError")
        /\ (kwargs.data_message.t = "dict" /\ outcome.kind = "return") =>
              /\ JsonHas(outcome.value, "data")
              /\ JsonGet(outcome.value, "data") = Dumps(kwargs.data_message)

\* C8 as stated: with exactly one registration id the payload has no
\* 'registration_ids' and its 'to' is that id, whether or not a topic or a
\* condition is given too (stated here for calls without extra keyword arguments).
C8_AsStated ==
    Built /\ NoExtras /\ OneRegistrationId =>
        /\ ~JsonHas(outcome.value, "registration_ids")
        /\ JsonHas(outcome.value, "to")
        /\ JsonGet(outcome.value, "to") = PyStr(kwargs.registration_ids.l[1])

\* C9 as stated: given a condition and a topic and no registration ids, the
\* payload has 'condition' equal to the expression and no 'to'; a payload's 'to'
\* is the topic target only when no condition is given.
C9_AsStated ==
    Built =>
        /\ (Truthy(kwargs.condition) /\ Truthy(kwargs.topic_name)
              /\ ~Truthy(kwargs.registration_ids)) =>
              /\ JsonHas(outcome.value, "condition")
              /\ JsonGet(outcome.value, "condition") = kwargs.condition
              /\ ~JsonHas(outcome.value, "to")
        /\ (Truthy(kwargs.topic_name) /\ JsonHas(outcome.value, "to")
              /\ JsonGet(outcome.value, "to") = TopicTarget) =>
              ~Truthy(kwargs.condition)

\* C9 amended: the same, for calls whose extra keyword arguments do not name
\* 'to' (an extra 'to' is merged last and becomes the payload's 'to').
C9_ConditionOverTopic ==
    Built /\ "to" \notin DOMAIN kwargs.extra_kwargs =>
        /\ (Truthy(kwargs.condition) /\ Truthy(kwargs.topic_name)
              /\ ~Truthy(kwargs.registration_ids)) =>
              /\ JsonHas(outcome.value, "condition")
              /\ JsonGet(outcome.value, "condition") = kwargs.condition
              /\ ~JsonHas(outcome.value, "to")
        /\ (Truthy(kwargs.topic_name) /\ JsonHas(outcome.value, "to")
              /\ JsonGet(outcome.value, "to") = TopicTarget) =>
              ~Truthy(kwargs.condition)

\* C9: condition and topic given without ids, the payload built
C9_Witness ==
    /\ Built
    /\ "to" \notin DOMAIN kwargs.extra_kwargs
    /\ Truthy(kwargs.condition) /\ Truthy(kwargs.topic_name)
    /\ ~Truthy(kwargs.registration_ids)
    /\ JsonGet(outcome.value, "condition") = kwargs.condition
    /\ ~JsonHas(outcome.value, "to")

\* the top-level keys of a serialized payload
JsonKeys(js) == {js[n].key : n \in 1..Len(js)}

\* C10: the extras are merged last: every extra key k has payload[k] equal to the
\* extra's value even where an earlier rule wrote k, and every other top-level
\* key keeps the value the earlier rules gave it.
C10_ExtrasMergedLast ==
    Built =>
        LET js == outcome.value
            before == BeforeExtras(kwargs)
            extras == kwargs.extra_kwargs
        IN  /\ \A k \in DOMAIN extras :
                  JsonHas(js, k) /\ JsonGet(js, k) = Dumps(extras[k])
            /\ \A k \in (DOMAIN before) \ (DOMAIN extras) :
                  JsonHas(js, k) /\ JsonGet(js, k) = Dumps(before[k])
            /\ JsonKeys(js) = (DOMAIN before) \cup (DOMAIN extras)
            /\ ("to" \in DOMAIN extras /\ OneRegistrationId) =>
                  JsonGet(js, "to") # PyStr(kwargs.registration_ids.l[1])

\* C10: an extra 'to' given with one registration id, the payload built
C10_Witness ==
    /\ Built
    /\ OneRegistrationId
    /\ "to" \in DOMAIN kwargs.extra_kwargs
    /\ JsonGet(outcome.value, "to") = kwargs.extra_kwargs["to"]
    /\ JsonGet(outcome.value, "to") # PyStr(kwargs.registration_ids.l[1])
    /\ JsonGet(outcome.value, "priority") = PyStr(FCM_HIGH_PRIORITY)

(***************************************************************************)
(* __init__, request_headers, parse_response and send_request              *)
(***************************************************************************)
CONTENT_TYPE == "application/json"
FCM_END_POINT == "https://fcm.googleapis.com/fcm/send"

MaxPayloads == 3

ApiKeyArgs == {PyNone, PyStr(""), PyStr("key")}

\* os.getenv('FCM_API_KEY', None)
EnvKeys == {PyNone, PyStr(""), PyStr("envkey")}

ProxyDictArgs ==
    {PyNone, PyDict(EmptyDict), PyStr("http://proxy"),
     PyDict([x \in {"http"} |-> PyStr("http://proxy")]),
     PyDict([x \in {"https"} |-> PyStr("https://proxy")]),
     PyDict([x \in {"ftp"} |-> PyStr("ftp://proxy")])}

\* lines 41-43: the proxies __init__ stores
StoredProxies(proxy_dict) ==
    IF /\ Truthy(proxy_dict)
       /\ IsInstanceDict(proxy_dict)
       /\ ("http" \in DOMAIN proxy_dict.d \/ "https" \in DOMAIN proxy_dict.d)
    THEN proxy_dict
    ELSE PyNone

\* request_headers()
request_headers ==
    [x \in {"Content-Type", "Authorization"} |->
        IF x = "Content-Type" THEN CONTENT_TYPE ELSE "key=" \o api._FCM_API_KEY.s]

\* the payloads sequences of the model: k distinct payloads, k = 0..MaxPayloads
PayloadsArgs == {[n \in 1..k |-> n] : k \in 0..MaxPayloads}

\* int(s) for the content-length values of the model
PyIntOf(v) ==
    CASE v.s = "0" -> 0
      [] v.s = "-1" -> -1
      [] v.s = "2" -> 2
      [] v.s = "57" -> 57

ContentLengths == {PyStr("0"), PyStr("-1"), PyStr("2"), PyStr("57")}

HeadersOf200 ==
    {EmptyDict} \cup {[x \in {"content-length"} |-> c] : c \in ContentLengths}

\* JSON objects the server answers with; a results list is kept as the list of
\* its message ids
BodiesOf200 ==
    {EmptyDict,
     [x \in {"success", "failure", "canonical_ids", "results"} |->
         CASE x = "success" -> PyInt("1")
           [] x = "failure" -> PyInt("0")
           [] x = "canonical_ids" -> PyInt("0")
           [] x = "results" -> PyList(<<"abc">>)],
     [x \in {"multicast_id", "success", "failure", "canonical_ids", "results", "message_id"} |->
         CASE x = "multicast_id" -> PyInt("108")
           [] x = "success" -> PyInt("1")
           [] x = "failure" -> PyInt("1")
           [] x = "canonical_ids" -> PyInt("1")
           [] x = "results" -> PyList(<<"abc", "def">>)
           [] x = "message_id" -> PyInt("7")],
     [x \in {"message_id"} |-> PyInt("7")]}

StatusCodes == {200, 201, 204, 301, 400, 401, 403, 404, 500, 503}

Texts == {"", "Missing registration"}

\* what requests.post may return
Responses ==
    {[status_code |-> 200, headers |-> h, body |-> b, text |-> ""] :
        h \in HeadersOf200, b \in BodiesOf200}
    \cup
    {[status_code |-> c, headers |-> EmptyDict, body |-> EmptyDict, text |-> t] :
        c \in StatusCodes \ {200}, t \in Texts}

NoResponse == [status_code |-> 0, headers |-> EmptyDict, body |-> EmptyDict, text |-> ""]

NoApi == [_FCM_API_KEY |-> PyNone, FCM_REQ_PROXIES |-> PyNone]

\* lines 51-73
parse_response(r) ==
    IF "content-length" \in DOMAIN r.headers /\ PyIntOf(r.headers["content-length"]) <= 0
    THEN PyDict(EmptyDict)
    ELSE PyDict([x \in {"multicast_id", "success", "failure", "canonical_ids", "results"} |->
            CASE x = "multicast_id" -> DictGet(r.body, "multicast_id", PyNone)
              [] x = "success" -> DictGet(r.body, "success", PyInt("0"))
              [] x = "failure" -> DictGet(r.body, "failure", PyInt("0"))
              [] x = "canonical_ids" -> DictGet(r.body, "canonical_ids", PyInt("0"))
              [] x = "results" -> DictGet(r.body, "results", PyList(<<>>))])

\* lines 198-205: the branch a status code takes
ClassifySuccessRange(status_code) ==
    CASE status_code >= 200 /\ status_code < 300 -> "parse"
      [] status_code = 401 -> "AuthenticationError"
      [] status_code = 400 -> "InternalPackageError"
      [] OTHER -> "FCMServerError"
Classify(status_code) ==
    CASE status_code = 200 -> "parse"
      [] status_code = 401 -> "AuthenticationError"
      [] status_code = 400 -> "InternalPackageError"
      [] OTHER -> "FCMServerError"

InitSend ==
    /\ pc = "new"
    /\ registration_ids = <<>>
    /\ i = 0
    /\ chunks = <<>>
    /\ kwargs = Defaults
    /\ outcome = NoOutcome
    /\ api = NoApi
    /\ payloads = <<>>
    /\ payload = 0
    /\ response = NoResponse
    /\ posts = <<>>

\* BaseAPI(api_key, proxy_dict) with a usable key
Construct ==
    /\ pc = "new"
    /\ \E api_key \in ApiKeyArgs, env \in EnvKeys, proxy_dict \in ProxyDictArgs :
          /\ Truthy(api_key) \/ Truthy(env)
          /\ api' = [_FCM_API_KEY |-> IF Truthy(api_key) THEN api_key ELSE env,
                     FCM_REQ_PROXIES |-> StoredProxies(proxy_dict)]
    /\ pc' = "ready"
    /\ UNCHANGED <<registration_ids, i, chunks, kwargs, outcome, payloads, payload, response, posts>>

\* BaseAPI(api_key, proxy_dict) with no key given and none in the environment
ConstructFails ==
    /\ pc = "new"
    /\ \E api_key \in ApiKeyArgs, env \in EnvKeys :
          ~Truthy(api_key) /\ ~Truthy(env)
    /\ outcome' = Raise("AuthenticationError",
                        "Please provide the api_key in the google-services.json file")
    /\ pc' = "failed"
    /\ UNCHANGED <<registration_ids, i, chunks, kwargs, api, payloads, payload, response, posts>>

\* send_request(payloads) is called
send_request ==
    /\ pc = "ready"
    /\ payloads' \in PayloadsArgs
    /\ payload' = 0
    /\ pc' = "for"
    /\ UNCHANGED <<registration_ids, i, chunks, kwargs, outcome, api, response, posts>>

\* line 194: the loop takes its next payload
ForPayload ==
    /\ pc = "for"
    /\ payload < Len(payloads)
    /\ payload' = payload + 1
    /\ pc' = "post"
    /\ UNCHANGED <<registration_ids, i, chunks, kwargs, outcome, api, payloads, response, posts>>

\* line 194: nothing is left to loop over, the function falls off its end
ForExhausted ==
    /\ pc = "for"
    /\ payload >= Len(payloads)
    /\ outcome' = Return(PyNone)
    /\ pc' = "done"
    /\ UNCHANGED <<registration_ids, i, chunks, kwargs, api, payloads, payload, response, posts>>

\* line 195: the direct POST
PostDirect ==
    /\ pc = "post"
    /\ \E r \in Responses :
          /\ response' = r
          /\ posts' = Append(posts, [url |-> FCM_END_POINT, headers |-> request_headers,
                                     data |-> payloads[payload], proxies |-> PyNone,
                                     response |-> r])
    /\ pc' = IF Truthy(api.FCM_REQ_PROXIES) THEN "post_proxy" ELSE "status"
    /\ UNCHANGED <<registration_ids, i, chunks, kwargs, outcome, api, payloads, payload>>

\* lines 196-197: the second POST, through the proxies
PostProxy ==
    /\ pc = "post_proxy"
    /\ \E r \in Responses :
          /\ response' = r
          /\ posts' = Append(posts, [url |-> FCM_END_POINT, headers |-> request_headers,
                                     data |-> payloads[payload],
                                     proxies |-> api.FCM_REQ_PROXIES, response |-> r])
    /\ pc' = "status"
    /\ UNCHANGED <<registration_ids, i, chunks, kwargs, outcome, api, payloads, payload>>

\* lines 198-199
Status200KeepsLooping ==
    /\ pc = "status"
    /\ Classify(response.status_code) = "parse"
    /\ pc' = "for"
    /\ UNCHANGED <<registration_ids, i, chunks, kwargs, outcome, api, payloads, payload, response, posts>>
Status200 ==
    /\ pc = "status"
    /\ Classify(response.status_code) = "parse"
    /\ outcome' = Return(parse_response(response))
    /\ pc' = "done"
    /\ UNCHANGED <<registration_ids, i, chunks, kwargs, api, payloads, payload, response, posts>>

\* lines 200-201
Status401 ==
    /\ pc = "status"
    /\ Classify(response.status_code) = "AuthenticationError"
    /\ outcome' = Raise("AuthenticationError",
                        "There was an error authenticating the sender account")
    /\ pc' = "done"
    /\ UNCHANGED <<registration_ids, i, chunks, kwargs, api, payloads, payload, response, posts>>

\* lines 202-203
Status400 ==
    /\ pc = "status"
    /\ Classify(response.status_code) = "InternalPackageError"
    /\ outcome' = Raise("InternalPackageError", response.text)
    /\ pc' = "done"
    /\ UNCHANGED <<registration_ids, i, chunks, kwargs, api, payloads, payload, response, posts>>

\* lines 204-205
StatusOther ==
    /\ pc = "status"
    /\ Classify(response.status_code) = "FCMServerError"
    /\ outcome' = Raise("FCMServerError", "FCM server is temporarily unavailable")
    /\ pc' = "done"
    /\ UNCHANGED <<registration_ids, i, chunks, kwargs, api, payloads, payload, response, posts>>

NextSend ==
    \/ Construct
    \/ ConstructFails
    \/ send_request
    \/ ForPayload
    \/ ForExhausted
    \/ PostDirect
    \/ PostProxy
    \/ Status200
    \/ Status401
    \/ Status400
    \/ StatusOther

SpecSend == InitSend /\ [][NextSend]_vars

(***************************************************************************)
(* Properties of send_request                                              *)
(***************************************************************************)
\* the response send_request acts on: the one its last POST returned
Acted == posts[Len(posts)].response

DirectPosts == {n \in 1..Len(posts) : posts[n].proxies = PyNone}

ProxiedPosts == {n \in 1..Len(posts) : posts[n].proxies # PyNone}

\* C3: the status code of the response acted on decides the outcome: 200 returns
\* the parsed response, 401 raises AuthenticationError, 400 raises
\* InternalPackageError with the response's text, anything else raises
\* FCMServerError.
C3_StatusClassification ==
    pc = "done" /\ posts # <<>> =>
        LET code == Acted.status_code IN
        /\ code = 200 =>
              /\ outcome.kind = "return"
              /\ outcome.value = parse_response(Acted)
        /\ code = 401 =>
              outcome.kind = "raise" /\ outcome.error = "AuthenticationError"
        /\ code = 400 =>
              /\ outcome.kind = "raise" /\ outcome.error = "InternalPackageError"
              /\ outcome.message = Acted.text
        /\ code \notin {200, 401, 400} =>
              outcome.kind = "raise" /\ outcome.error = "FCMServerError"

\* C3: a 201 answer has been classified
C3_Witness ==
    /\ pc = "done"
    /\ posts # <<>>
    /\ Acted.status_code = 201
    /\ outcome.kind = "raise"
    /\ outcome.error = "FCMServerError"

\* C4 as stated: every payload of the sequence gets one direct POST, in order,
\* and one more through the proxies when proxies are stored; so a call whose
\* responses were all 200 has made as many direct POSTs as it was given payloads.
C4_AsStated ==
    (pc = "done" /\ \A n \in 1..Len(posts) : posts[n].response.status_code = 200) =>
        /\ Cardinality(DirectPosts) = Len(payloads)
        /\ Truthy(api.FCM_REQ_PROXIES) => Cardinality(ProxiedPosts) = Len(payloads)

\* C5: only the first payload is ever sent: every POST carries payloads[1], a
\* call that returns a parsed response returns the one parsed from the response
\* to the first payload, and a call that raises has sent no later payload.
C5_FirstPayloadOnly ==
    /\ \A n \in 1..Len(posts) : posts[n].data = payloads[1]
    /\ (pc = "done" /\ payloads # <<>>) =>
          /\ posts # <<>>
          /\ outcome.kind = "return" => outcome.value = parse_response(Acted)
          /\ outcome.kind = "raise" <=> Acted.status_code # 200
          /\ Cardinality(DirectPosts) = 1
          /\ Cardinality(ProxiedPosts) = IF Truthy(api.FCM_REQ_PROXIES) THEN 1 ELSE 0

\* C5: a call given several payloads has returned
C5_Witness ==
    /\ pc = "done"
    /\ Len(payloads) >= 2
    /\ outcome.kind = "return"
    /\ outcome.value # PyDict(EmptyDict)
    /\ Len(posts) = 1
    /\ posts[1].data = payloads[1]

====
